---- MODULE Spec2Model ----
(***************************************************************************)
(* Session memory of openai-agents-python.                                 *)
(*                                                                         *)
(* Two backends are modelled:                                              *)
(*   - the blob backend, src/agents/memory/sqlite_memory.py: one row per   *)
(*     session in table "sessions", the history stored as one JSON text;   *)
(*   - the row backend, src/agents/memory.py: one row per item in table    *)
(*     "memory", keyed by (session_id, idx).                               *)
(*                                                                         *)
(* A store is one SQLiteSessionMemory instance with its own sqlite3        *)
(* connection.  Stores opened on the same file share the database; a store *)
(* opened on ":memory:" owns a private database that lives exactly as long *)
(* as its connection.  Calls on one store never overlap (the coroutines    *)
(* contain no suspension point); calls of different stores interleave at   *)
(* the granularity of SQL statements and commits.                          *)
(***************************************************************************)
EXTENDS Integers, Sequences, FiniteSets, TLC

(* ------------------------------ bounds -------------------------------- *)

\* longest history a caller passes or a session holds
MaxLen == 2

\* CURRENT_TIMESTAMP takes the values 0..MaxClock (whole seconds)
MaxClock == 1

Sessions == {"s1", "s2"}
Items == {"x", "y"}
Stores == {"a", "b"}

MemPath == ":memory:"
FilePath == "sessions.db"
Paths == {MemPath, FilePath}

Hist == UNION {[1..n -> Items] : n \in 0..MaxLen}

VARIABLES
    db_path,      \* [Stores -> Paths]            self.db_path
    connection,   \* [Stores -> BOOLEAN]          self._connection is not None
    disk,         \* database stored in the file FilePath
    memdb,        \* [Stores -> database]         private ":memory:" database
    txn,          \* [Stores -> transaction]      open transaction of the connection
    now,          \* CURRENT_TIMESTAMP, in seconds
    pc,           \* [Stores -> position inside append_to_session]
    frame,        \* [Stores -> locals of the running append_to_session]
    memory,       \* row backend: rows of table "memory"
    row_conn,     \* row backend: state of self._conn
    ev,           \* the call that completed last, with its result
    wr,           \* per database and session: last successful write
    mru,          \* per database: sessions in order of last write
    epoch,        \* the write calls that overlapped most recently
    agent,        \* the runtime's agent: its memory configuration, resolved
    run           \* the runtime's turns: position, locals and what was told

blobVars == <<db_path, connection, disk, memdb, txn, now, pc, frame>>
rowVars == <<memory, row_conn>>
ghostVars == <<ev, wr, mru, epoch>>
runVars == <<agent, run>>
vars == <<db_path, connection, disk, memdb, txn, now, pc, frame,
          memory, row_conn, ev, wr, mru, epoch, agent, run>>

(* ------------------------------- JSON --------------------------------- *)

\* json.dumps of one item: an object, as a sequence of tokens
JsonDumpsItem(i) == <<"{", i, "}">>

RECURSIVE JsonJoin(_)
JsonJoin(h) ==
    IF h = <<>> THEN <<>>
    ELSE IF Len(h) = 1 THEN JsonDumpsItem(h[1])
    ELSE JsonDumpsItem(h[1]) \o <<",">> \o JsonJoin(Tail(h))

\* json.dumps of a list of items
JsonDumps(h) == <<"[">> \o JsonJoin(h) \o <<"]">>

JsonError == [ok |-> FALSE, value |-> <<>>]

\* json.loads of the text of one item
JsonLoadsItem(t) ==
    IF Len(t) = 3 /\ t[1] = "{" /\ t[2] \in Items /\ t[3] = "}"
    THEN [ok |-> TRUE, value |-> <<t[2]>>]
    ELSE JsonError

RECURSIVE JsonParseItems(_)
JsonParseItems(t) ==
    IF Len(t) < 3 THEN JsonError
    ELSE LET first == JsonLoadsItem(SubSeq(t, 1, 3))
         IN IF ~first.ok THEN JsonError
            ELSE IF Len(t) = 3 THEN first
            ELSE IF t[4] # "," THEN JsonError
            ELSE LET rest == JsonParseItems(SubSeq(t, 5, Len(t)))
                 IN IF rest.ok
                    THEN [ok |-> TRUE, value |-> first.value \o rest.value]
                    ELSE JsonError

\* json.loads of the text of a list; ok = FALSE is json.JSONDecodeError
JsonLoads(t) ==
    IF Len(t) < 2 \/ t[1] # "[" \/ t[Len(t)] # "]" THEN JsonError
    ELSE IF Len(t) = 2 THEN [ok |-> TRUE, value |-> <<>>]
    ELSE JsonParseItems(SubSeq(t, 2, Len(t) - 1))

(* ----------------------------- databases ------------------------------ *)

\* table "sessions": a map from the primary key session_id to the row
EmptyTable == [s \in {} |-> 0]

NoDatabase == [schema |-> FALSE, sessions |-> EmptyTable]
NoTxn == [active |-> FALSE, sessions |-> EmptyTable]

\* INSERT ... VALUES (session_id, conversation_history): both timestamp
\* columns take their DEFAULT CURRENT_TIMESTAMP
NewRow(text) ==
    [conversation_history |-> text, created_at |-> now, updated_at |-> now]

\* INSERT OR IGNORE in place of INSERT OR REPLACE: an existing row is kept
InsertOrIgnore(tbl, s, text) ==
    [t \in DOMAIN tbl \cup {s} |->
        IF t \in DOMAIN tbl THEN tbl[t] ELSE NewRow(text)]

\* INSERT OR REPLACE: the row with the same primary key is deleted first.
\* The trigger update_sessions_timestamp is AFTER UPDATE and no statement
\* of the backend is an UPDATE, so it never fires.
InsertOrReplace(tbl, s, text) ==
    [t \in DOMAIN tbl \cup {s} |-> IF t = s THEN NewRow(text) ELSE tbl[t]]

\* DELETE FROM sessions with no WHERE clause: every row goes
DeleteAllRows(tbl, s) == EmptyTable

\* a DELETE that empties the history and keeps the row
DeleteKeepsRow(tbl, s) ==
    [t \in DOMAIN tbl |-> IF t = s THEN NewRow(JsonDumps(<<>>)) ELSE tbl[t]]

\* DELETE FROM sessions WHERE session_id = ?
DeleteRow(tbl, s) == [t \in DOMAIN tbl \ {s} |-> tbl[t]]

\* the database a store is attached to: the file, or its own ":memory:"
DbId(c) == IF db_path[c] = MemPath THEN c ELSE "file"
DbIds == Stores \cup {"file"}

\* the committed database of store c once _get_connection has run:
\* sqlite3.connect creates the database, CREATE TABLE IF NOT EXISTS the table
Committed(c) ==
    LET db == IF db_path[c] = MemPath THEN memdb[c] ELSE disk
    IN IF connection[c] \/ db.schema THEN db
       ELSE [schema |-> TRUE, sessions |-> EmptyTable]

\* what the statements of store c read: its open transaction, else the
\* committed database
View(c) == IF txn[c].active THEN txn[c].sessions ELSE Committed(c).sessions

\* another connection to the same file holds the write lock
LockedByOther(c) ==
    \E d \in Stores \ {c} :
        db_path[c] # MemPath /\ db_path[d] # MemPath /\ txn[d].active

\* _get_connection, and nothing written
get_connection(c) ==
    /\ connection' = [connection EXCEPT ![c] = TRUE]
    /\ IF db_path[c] = MemPath
       THEN memdb' = [memdb EXCEPT ![c] = Committed(c)] /\ disk' = disk
       ELSE disk' = Committed(c) /\ memdb' = memdb

\* _get_connection, the statement's effect tbl, and conn.commit()
Commit(c, tbl) ==
    /\ connection' = [connection EXCEPT ![c] = TRUE]
    /\ txn' = [txn EXCEPT ![c] = NoTxn]
    /\ IF db_path[c] = MemPath
       THEN /\ memdb' = [memdb EXCEPT ![c] = [schema |-> TRUE, sessions |-> tbl]]
            /\ disk' = disk
       ELSE /\ disk' = [schema |-> TRUE, sessions |-> tbl]
            /\ memdb' = memdb

\* How a write call ends.  No write call catches an exception or rolls back.
\*   ok          the statement ran and conn.commit() returned
\*   busy        conn.commit() raised "database is locked" (SQLITE_BUSY):
\*               SQLite leaves the transaction open
\*   rolled_back conn.commit() raised an I/O error: SQLite rolled back
\*   locked      conn.execute() raised "database is locked": another
\*               connection holds the write lock
Outcomes == {"ok", "busy", "rolled_back", "locked"}
Faults == Outcomes \ {"ok"}

\* conn.execute(statement) with effect tbl, then conn.commit(), ending in o
Write(c, tbl, o) ==
    CASE o = "ok" ->
           /\ ~LockedByOther(c)
           /\ Commit(c, tbl)
      [] o = "busy" ->
           /\ db_path[c] # MemPath
           /\ ~LockedByOther(c)
           /\ get_connection(c)
           /\ txn' = [txn EXCEPT ![c] = [active |-> TRUE, sessions |-> tbl]]
      [] o = "rolled_back" ->
           /\ db_path[c] # MemPath
           /\ ~LockedByOther(c)
           /\ get_connection(c)
           /\ txn' = [txn EXCEPT ![c] = NoTxn]
      [] o = "locked" ->
           /\ LockedByOther(c)
           /\ get_connection(c)
           /\ txn' = txn

(* ------------------------- results of the reads ----------------------- *)

\* load_session: the value returned
LoadResult(c, s) ==
    IF s \notin DOMAIN View(c) THEN <<>>
    ELSE LET parsed == JsonLoads(View(c)[s].conversation_history)
         IN IF parsed.ok THEN parsed.value ELSE <<>>

\* an existence check that asks for a non-empty history
ExistsIfNonEmpty(c, s) == LoadResult(c, s) # <<>>

\* session_exists: the value returned
ExistsResult(c, s) == s \in DOMAIN View(c)

\* a listing read with fetchone in place of fetchall: the first row only
IsFirstRowOnly(c, order) ==
    /\ Len(order) = IF DOMAIN View(c) = {} THEN 0 ELSE 1
    /\ \A i \in 1..Len(order) :
         /\ order[i] \in DOMAIN View(c)
         /\ \A s \in DOMAIN View(c) :
              View(c)[order[i]].updated_at >= View(c)[s].updated_at

\* a listing that leaves out the sessions whose history is empty
IsListingOfNonEmpty(c, order) ==
    LET kept == {s \in DOMAIN View(c) : LoadResult(c, s) # <<>>}
    IN /\ Len(order) = Cardinality(kept)
       /\ {order[i] : i \in 1..Len(order)} = kept
       /\ \A i, j \in 1..Len(order) :
            i < j => View(c)[order[i]].updated_at >= View(c)[order[j]].updated_at

\* ORDER BY updated_at DESC: rows with equal updated_at come in any order
IsListing(c, order) ==
    /\ Len(order) = Cardinality(DOMAIN View(c))
    /\ {order[i] : i \in 1..Len(order)} = DOMAIN View(c)
    /\ \A i, j \in 1..Len(order) :
         i < j => View(c)[order[i]].updated_at >= View(c)[order[j]].updated_at

Listings == UNION {[1..n -> Sessions] : n \in 0..Cardinality(Sessions)}

(* ------------------------------- ghosts ------------------------------- *)

NoCall == [op |-> "none", sid |-> "", arg |-> <<>>]
NoBefore == [had |-> FALSE, hist |-> <<>>]
NoEpoch ==
    [on |-> TRUE, sid |-> "", before |-> NoBefore,
     calls |-> [c \in Stores |-> NoCall], tracked |-> FALSE]

\* the overlap of write calls is not followed
EpochOff == [NoEpoch EXCEPT !.on = FALSE]

\* a completed call: whether it returned or raised and, when it returned,
\* its arguments, what it found when it started (write calls) and the value
\* it returned
Event(op, c, s, arg, before, o, hist, found, listing) ==
    [op |-> op, st |-> c, sid |-> s,
     arg |-> IF o = "ok" THEN arg ELSE <<>>,
     before |-> IF o = "ok" THEN before ELSE NoBefore,
     ok |-> (o = "ok"), error |-> IF o = "ok" THEN "" ELSE o,
     hist |-> hist, found |-> found, listing |-> listing]

NoEvent == Event("none", "", "", <<>>, NoBefore, "ok", <<>>, FALSE, <<>>)

NoFrame ==
    [session_id |-> "", new_items |-> <<>>, existing_history |-> <<>>,
     had |-> FALSE]

\* what store c finds of session call.sid when its call starts: whether the
\* row exists and, for the call that reads it, the history it loads
Before(c, call) ==
    [had |-> ExistsResult(c, call.sid),
     hist |-> IF call.op = "append" THEN LoadResult(c, call.sid) ELSE <<>>]

InProgress == {c \in Stores : pc[c] # "idle"}

\* a write call of store c starts
EpochAtCall(c, call) ==
    IF ~epoch.on THEN epoch
    ELSE IF InProgress = {}
    THEN [on |-> TRUE, sid |-> call.sid, before |-> Before(c, call),
          calls |-> [d \in Stores |-> IF d = c THEN call ELSE NoCall],
          tracked |-> TRUE]
    ELSE [epoch EXCEPT !.calls[c] = call,
                       !.tracked = /\ epoch.tracked
                                   /\ epoch.calls[c] = NoCall
                                   /\ call.sid = epoch.sid]

\* a read call of store c starts
EpochAtRead == IF epoch.on /\ InProgress = {} THEN NoEpoch ELSE epoch

RemoveFrom(seq, s) == SelectSeq(seq, LAMBDA t : t # s)

\* a save or append on session s of store c's database has ended in o
GhostWritten(c, s, o) ==
    IF o = "ok"
    THEN /\ wr' = [wr EXCEPT ![DbId(c)][s] = "written"]
         /\ mru' = [mru EXCEPT ![DbId(c)] =
                       <<s>> \o RemoveFrom(mru[DbId(c)], s)]
    ELSE UNCHANGED <<wr, mru>>

\* a clear on session s of store c's database has ended in o
GhostCleared(c, s, o) ==
    IF o = "ok"
    THEN /\ wr' = [wr EXCEPT ![DbId(c)][s] = "cleared"]
         /\ mru' = [mru EXCEPT ![DbId(c)] = RemoveFrom(mru[DbId(c)], s)]
    ELSE UNCHANGED <<wr, mru>>

(* ------------------------------ runtime ------------------------------ *)

\* most turns one agent runs
MaxTurns == 2

\* values passed as Agent(memory=...): the boolean switch, the disabled
\* value, a backend instance, and values of no accepted kind
Configs == {"True", "False", "None", "SQLiteSessionMemory", "invalid_string", "42"}
Enabling == {"True", "SQLiteSessionMemory"}
Disabling == {"False", "None"}

NoError == [kind |-> "", value |-> ""]
NoAgent == [state |-> "unbuilt", memory |-> "", backend |-> "none",
            error |-> NoError]

\* items the model layer generates in one turn, in generation order
Generated == {g \in Hist : Len(g) >= 1}

NoRun ==
    [phase |-> "idle", session_id |-> "", input |-> "", history |-> <<>>,
     model_input |-> <<>>, generated |-> <<>>, turns |-> 0,
     told |-> [s \in Sessions |-> <<>>]]

(* ------------------------------- Init --------------------------------- *)

Init ==
    /\ db_path \in [Stores -> Paths]
    /\ db_path["b"] = FilePath
    /\ connection = [c \in Stores |-> FALSE]
    /\ disk = NoDatabase
    /\ memdb = [c \in Stores |-> NoDatabase]
    /\ txn = [c \in Stores |-> NoTxn]
    /\ now = 0
    /\ pc = [c \in Stores |-> "idle"]
    /\ frame = [c \in Stores |-> NoFrame]
    /\ memory = {}
    /\ row_conn = "open"
    /\ ev = NoEvent
    /\ wr = [d \in DbIds |-> [s \in Sessions |-> "never"]]
    /\ mru = [d \in DbIds |-> <<>>]
    /\ epoch \in {NoEpoch, EpochOff}
    /\ agent = NoAgent
    /\ run = NoRun

(* ---------------------- blob backend: operations ---------------------- *)

load_session(c, s) ==
    /\ pc[c] = "idle"
    /\ get_connection(c)
    /\ ev' = Event("load", c, s, <<>>, NoBefore, "ok", LoadResult(c, s), FALSE, <<>>)
    /\ epoch' = EpochAtRead
    /\ UNCHANGED <<db_path, txn, now, pc, frame, wr, mru>>
    /\ UNCHANGED rowVars
    /\ UNCHANGED runVars

save_session(c, s, h, o) ==
    /\ pc[c] = "idle"
    /\ Write(c, InsertOrReplace(View(c), s, JsonDumps(h)), o)
    /\ LET call == [op |-> "save", sid |-> s, arg |-> h]
       IN /\ ev' = Event("save", c, s, h, Before(c, call), o,
                         <<>>, FALSE, <<>>)
          /\ epoch' = EpochAtCall(c, call)
    /\ GhostWritten(c, s, o)
    /\ UNCHANGED <<db_path, now, pc, frame>>
    /\ UNCHANGED rowVars
    /\ UNCHANGED runVars

\* append_to_session up to the return of load_session
append_to_session_load(c, s, items) ==
    /\ pc[c] = "idle"
    /\ Len(LoadResult(c, s)) + Len(items) <= MaxLen
    /\ get_connection(c)
    /\ pc' = [pc EXCEPT ![c] = "append"]
    /\ frame' = [frame EXCEPT ![c] =
                    [session_id |-> s, new_items |-> items,
                     existing_history |-> LoadResult(c, s),
                     had |-> ExistsResult(c, s)]]
    /\ epoch' = EpochAtCall(c, [op |-> "append", sid |-> s, arg |-> items])
    /\ UNCHANGED <<db_path, txn, now, ev, wr, mru>>
    /\ UNCHANGED rowVars
    /\ UNCHANGED runVars

\* an append that saves the new items in front of the existing history
append_prepends(c, o) ==
    /\ pc[c] = "append"
    /\ LET updated_history == frame[c].new_items \o frame[c].existing_history
       IN Write(c, InsertOrReplace(View(c), frame[c].session_id,
                                   JsonDumps(updated_history)), o)
    /\ pc' = [pc EXCEPT ![c] = "idle"]
    /\ frame' = [frame EXCEPT ![c] = NoFrame]
    /\ ev' = Event("append", c, frame[c].session_id, frame[c].new_items,
                   [had |-> frame[c].had, hist |-> frame[c].existing_history],
                   o, <<>>, FALSE, <<>>)
    /\ GhostWritten(c, frame[c].session_id, o)
    /\ UNCHANGED <<db_path, now, epoch>>
    /\ UNCHANGED rowVars
    /\ UNCHANGED runVars

\* an append that returns at once when there is nothing to add
append_skips_empty(c, o) ==
    /\ pc[c] = "append"
    /\ LET updated_history == frame[c].existing_history \o frame[c].new_items
       IN IF frame[c].new_items = <<>>
          THEN o = "ok" /\ get_connection(c) /\ txn' = txn
          ELSE Write(c, InsertOrReplace(View(c), frame[c].session_id,
                                        JsonDumps(updated_history)), o)
    /\ pc' = [pc EXCEPT ![c] = "idle"]
    /\ frame' = [frame EXCEPT ![c] = NoFrame]
    /\ ev' = Event("append", c, frame[c].session_id, frame[c].new_items,
                   [had |-> frame[c].had, hist |-> frame[c].existing_history],
                   o, <<>>, FALSE, <<>>)
    /\ GhostWritten(c, frame[c].session_id, o)
    /\ UNCHANGED <<db_path, now, epoch>>
    /\ UNCHANGED rowVars
    /\ UNCHANGED runVars

\* append_to_session from the call of save_session on
append_to_session_save(c, o) ==
    /\ pc[c] = "append"
    /\ LET updated_history == frame[c].existing_history \o frame[c].new_items
       IN Write(c, InsertOrReplace(View(c), frame[c].session_id,
                                   JsonDumps(updated_history)), o)
    /\ pc' = [pc EXCEPT ![c] = "idle"]
    /\ frame' = [frame EXCEPT ![c] = NoFrame]
    /\ ev' = Event("append", c, frame[c].session_id, frame[c].new_items,
                   [had |-> frame[c].had, hist |-> frame[c].existing_history],
                   o, <<>>, FALSE, <<>>)
    /\ GhostWritten(c, frame[c].session_id, o)
    /\ UNCHANGED <<db_path, now, epoch>>
    /\ UNCHANGED rowVars
    /\ UNCHANGED runVars

clear_session(c, s, o) ==
    /\ pc[c] = "idle"
    /\ Write(c, DeleteRow(View(c), s), o)
    /\ LET call == [op |-> "clear", sid |-> s, arg |-> <<>>]
       IN /\ ev' = Event("clear", c, s, <<>>, Before(c, call), o,
                         <<>>, FALSE, <<>>)
          /\ epoch' = EpochAtCall(c, call)
    /\ GhostCleared(c, s, o)
    /\ UNCHANGED <<db_path, now, pc, frame>>
    /\ UNCHANGED rowVars
    /\ UNCHANGED runVars

list_sessions(c) ==
    /\ pc[c] = "idle"
    /\ get_connection(c)
    /\ \E order \in Listings :
         /\ IsListing(c, order)
         /\ ev' = Event("list", c, "", <<>>, NoBefore, "ok", <<>>, FALSE, order)
    /\ epoch' = EpochAtRead
    /\ UNCHANGED <<db_path, txn, now, pc, frame, wr, mru>>
    /\ UNCHANGED rowVars
    /\ UNCHANGED runVars

session_exists(c, s) ==
    /\ pc[c] = "idle"
    /\ get_connection(c)
    /\ ev' = Event("exists", c, s, <<>>, NoBefore, "ok", <<>>, ExistsResult(c, s), <<>>)
    /\ epoch' = EpochAtRead
    /\ UNCHANGED <<db_path, txn, now, pc, frame, wr, mru>>
    /\ UNCHANGED rowVars
    /\ UNCHANGED runVars

\* a cleanup that closes the connection and keeps the closed handle
cleanup_keeps_handle(c) ==
    /\ pc[c] = "idle"
    /\ txn' = [txn EXCEPT ![c] = NoTxn]
    /\ memdb' = [memdb EXCEPT ![c] = NoDatabase]
    /\ IF db_path[c] = MemPath
       THEN /\ wr' = [wr EXCEPT ![c] = [s \in Sessions |-> "never"]]
            /\ mru' = [mru EXCEPT ![c] = <<>>]
       ELSE UNCHANGED <<wr, mru>>
    /\ ev' = Event("cleanup", c, "", <<>>, NoBefore, "ok", <<>>, FALSE, <<>>)
    /\ epoch' = EpochAtRead
    /\ UNCHANGED <<db_path, connection, disk, now, pc, frame>>
    /\ UNCHANGED rowVars
    /\ UNCHANGED runVars

\* close() rolls back an open transaction; a ":memory:" database ends with
\* its connection
cleanup(c) ==
    /\ pc[c] = "idle"
    /\ IF connection[c]
       THEN /\ connection' = [connection EXCEPT ![c] = FALSE]
            /\ txn' = [txn EXCEPT ![c] = NoTxn]
            /\ memdb' = [memdb EXCEPT ![c] = NoDatabase]
       ELSE UNCHANGED <<connection, txn, memdb>>
    /\ IF db_path[c] = MemPath
       THEN /\ wr' = [wr EXCEPT ![c] = [s \in Sessions |-> "never"]]
            /\ mru' = [mru EXCEPT ![c] = <<>>]
       ELSE UNCHANGED <<wr, mru>>
    /\ ev' = Event("cleanup", c, "", <<>>, NoBefore, "ok", <<>>, FALSE, <<>>)
    /\ epoch' = EpochAtRead
    /\ UNCHANGED <<db_path, disk, now, pc, frame>>
    /\ UNCHANGED rowVars
    /\ UNCHANGED runVars

\* a second of wall-clock time passes
Tick ==
    /\ now < MaxClock
    /\ now' = now + 1
    /\ UNCHANGED <<db_path, connection, disk, memdb, txn, pc, frame>>
    /\ UNCHANGED rowVars
    /\ UNCHANGED runVars
    /\ UNCHANGED ghostVars

(* ----------------------- damage from outside -------------------------- *)

\* a text cut short: its last token is lost
Truncated(text) == SubSeq(text, 1, Len(text) - 1)

\* the stored history of session s in the file is damaged
corrupt(s) ==
    /\ s \in DOMAIN disk.sessions
    /\ JsonLoads(disk.sessions[s].conversation_history).ok
    /\ disk' = [disk EXCEPT !.sessions[s].conversation_history = Truncated(@)]
    /\ UNCHANGED <<db_path, connection, memdb, txn, now, pc, frame>>
    /\ UNCHANGED rowVars
    /\ UNCHANGED runVars
    /\ UNCHANGED ghostVars

(* ----------------------- row backend: operations ---------------------- *)

\* how a call of the row backend ends
\*   ok           it returned
\*   rolled_back  a statement inside "with self._conn" raised: rollback
\*   closed       self._conn was closed: sqlite3.ProgrammingError
\*   decode       json.loads raised json.JSONDecodeError
RowOutcomes == {"ok", "rolled_back", "closed", "decode"}

RowsOf(s) == {r \in memory : r.session_id = s}

\* SELECT item FROM memory WHERE session_id=? ORDER BY idx ASC
SelectItems(s) ==
    LET rows == RowsOf(s)
        at(k) == CHOOSE r \in rows :
                    Cardinality({q \in rows : q.idx < r.idx}) = k - 1
    IN [k \in 1..Cardinality(rows) |-> at(k).item]

\* [json.loads(row[0]) for row in rows]
RECURSIVE LoadsAll(_)
LoadsAll(texts) ==
    IF texts = <<>> THEN [ok |-> TRUE, value |-> <<>>]
    ELSE LET first == JsonLoadsItem(Head(texts))
             rest == LoadsAll(Tail(texts))
         IN IF first.ok /\ rest.ok
            THEN [ok |-> TRUE, value |-> first.value \o rest.value]
            ELSE JsonError

\* table "memory" after the DELETE and the INSERTs of store
StoreRows(s, items) ==
    (memory \ RowsOf(s)) \cup
    {[session_id |-> s, idx |-> k - 1,
      item |-> JsonDumpsItem(items[k])] : k \in 1..Len(items)}

\* what load returns while the connection is open and every item parses
RowLoadResult(s) == LoadsAll(SelectItems(s)).value

\* the sessions that table "memory" holds a row of
RowSessions == {r.session_id : r \in memory}

load(s) ==
    /\ LET parsed == LoadsAll(SelectItems(s))
           o == IF row_conn = "closed" THEN "closed"
                ELSE IF parsed.ok THEN "ok" ELSE "decode"
       IN ev' = Event("row_load", "r", s, <<>>, NoBefore, o,
                      IF o = "ok" THEN parsed.value ELSE <<>>, FALSE, <<>>)
    /\ UNCHANGED <<wr, mru, epoch>>
    /\ UNCHANGED rowVars
    /\ UNCHANGED runVars
    /\ UNCHANGED blobVars
    /\ UNCHANGED runVars

\* DELETE FROM memory WHERE session_id=?, then one INSERT per item with
\* idx = 0, 1, ...; "with self._conn" commits, or rolls back and re-raises
store(s, items, o) ==
    /\ o \in {"ok", "rolled_back", "closed"}
    /\ (o = "closed") = (row_conn = "closed")
    /\ memory' = IF o = "ok" THEN StoreRows(s, items) ELSE memory
    /\ ev' = Event("row_store", "r", s, items, NoBefore, o, <<>>, FALSE, <<>>)
    /\ UNCHANGED <<row_conn, wr, mru, epoch>>
    /\ UNCHANGED blobVars
    /\ UNCHANGED runVars

close ==
    /\ row_conn' = "closed"
    /\ ev' = Event("row_close", "r", "", <<>>, NoBefore, "ok", <<>>, FALSE, <<>>)
    /\ UNCHANGED <<memory, wr, mru, epoch>>
    /\ UNCHANGED blobVars
    /\ UNCHANGED runVars

\* the stored text of item k of session s is damaged
corrupt_row(s, k) ==
    /\ \E r \in RowsOf(s) :
         /\ r.idx = k
         /\ JsonLoadsItem(r.item).ok
         /\ memory' = (memory \ {r}) \cup {[r EXCEPT !.item = Truncated(@)]}
    /\ UNCHANGED <<row_conn, ev, wr, mru, epoch>>
    /\ UNCHANGED blobVars
    /\ UNCHANGED runVars

(* ------------------------- runtime: operations ------------------------ *)

\* a construction that takes every unsupported value as "no memory"
Agent_init_fallback(mem) ==
    /\ agent.state = "unbuilt"
    /\ agent' = [state |-> "ready", memory |-> mem,
                 backend |-> CASE mem = "True" -> "Default"
                               [] mem = "SQLiteSessionMemory" -> "Custom"
                               [] OTHER -> "Disabled",
                 error |-> NoError]
    /\ db_path' = IF mem = "True" THEN [db_path EXCEPT !["a"] = MemPath]
                  ELSE db_path
    /\ UNCHANGED <<connection, disk, memdb, txn, now, pc, frame, run>>
    /\ UNCHANGED rowVars
    /\ UNCHANGED ghostVars

\* Agent(memory=mem): the selector is resolved once, at construction.
\* True builds the default backend, SQLiteSessionMemory() on ":memory:";
\* an instance is taken as it is; any other value is a fatal error
Agent_init(mem) ==
    /\ agent.state = "unbuilt"
    /\ agent' =
         CASE mem = "True" ->
                [state |-> "ready", memory |-> mem, backend |-> "Default",
                 error |-> NoError]
           [] mem = "SQLiteSessionMemory" ->
                [state |-> "ready", memory |-> mem, backend |-> "Custom",
                 error |-> NoError]
           [] mem \in Disabling ->
                [state |-> "ready", memory |-> mem, backend |-> "Disabled",
                 error |-> NoError]
           [] OTHER ->
                [state |-> "failed", memory |-> mem, backend |-> "none",
                 error |-> [kind |-> "InvalidConfiguration", value |-> mem]]
    /\ db_path' = IF mem = "True" THEN [db_path EXCEPT !["a"] = MemPath]
                  ELSE db_path
    /\ UNCHANGED <<connection, disk, memdb, txn, now, pc, frame, run>>
    /\ UNCHANGED rowVars
    /\ UNCHANGED ghostVars

\* a turn starts: load(session_id), then the model input is the history
\* followed by the new input
run_load(s, input) ==
    /\ agent.state = "ready"
    /\ run.phase = "idle"
    /\ run.turns < MaxTurns
    /\ pc["a"] = "idle"
    /\ LET history == IF agent.backend = "Disabled" THEN <<>>
                      ELSE LoadResult("a", s)
       IN run' = [run EXCEPT !.phase = "loaded", !.session_id = s,
                             !.input = input, !.history = history,
                             !.model_input = history \o <<input>>,
                             !.generated = <<>>]
    /\ IF agent.backend = "Disabled"
       THEN UNCHANGED <<connection, disk, memdb, ev>>
       ELSE /\ get_connection("a")
            /\ ev' = Event("load", "a", s, <<>>, NoBefore, "ok",
                           LoadResult("a", s), FALSE, <<>>)
    /\ UNCHANGED <<db_path, txn, now, pc, frame, wr, mru, epoch, agent>>
    /\ UNCHANGED rowVars

\* the model layer answers the turn
run_model(gen) ==
    /\ run.phase = "loaded"
    /\ run' = [run EXCEPT !.phase = "generated", !.generated = gen]
    /\ UNCHANGED agent
    /\ UNCHANGED blobVars
    /\ UNCHANGED rowVars
    /\ UNCHANGED ghostVars

\* a turn that appends what was generated and leaves the user input out
run_append_generated_only ==
    /\ run.phase = "generated"
    /\ LET s == run.session_id
           new_items == run.generated
           existing_history == LoadResult("a", s)
       IN /\ run' = [run EXCEPT !.phase = "idle", !.turns = @ + 1,
                                !.told[s] = @ \o <<run.input>> \o run.generated]
          /\ IF agent.backend = "Disabled"
             THEN UNCHANGED <<connection, disk, memdb, txn, ev, wr, mru>>
             ELSE /\ Write("a", InsertOrReplace(View("a"), s,
                              JsonDumps(existing_history \o new_items)), "ok")
                  /\ ev' = Event("append", "a", s, new_items,
                                 [had |-> ExistsResult("a", s),
                                  hist |-> existing_history],
                                 "ok", <<>>, FALSE, <<>>)
                  /\ GhostWritten("a", s, "ok")
    /\ UNCHANGED <<db_path, now, pc, frame, epoch, agent>>
    /\ UNCHANGED rowVars

\* the turn ends: append(session_id, new_items), the new user input item
\* followed by the items generated in the turn
run_append ==
    /\ run.phase = "generated"
    /\ LET s == run.session_id
           new_items == <<run.input>> \o run.generated
           existing_history == LoadResult("a", s)
       IN /\ run' = [run EXCEPT !.phase = "idle", !.turns = @ + 1,
                                !.told[s] = @ \o <<run.input>> \o run.generated]
          /\ IF agent.backend = "Disabled"
             THEN UNCHANGED <<connection, disk, memdb, txn, ev, wr, mru>>
             ELSE /\ Write("a", InsertOrReplace(View("a"), s,
                              JsonDumps(existing_history \o new_items)), "ok")
                  /\ ev' = Event("append", "a", s, new_items,
                                 [had |-> ExistsResult("a", s),
                                  hist |-> existing_history],
                                 "ok", <<>>, FALSE, <<>>)
                  /\ GhostWritten("a", s, "ok")
    /\ UNCHANGED <<db_path, now, pc, frame, epoch, agent>>
    /\ UNCHANGED rowVars

\* the runtime is done with the store and releases it
run_release ==
    /\ agent.state = "ready"
    /\ run.phase = "idle"
    /\ agent' = [agent EXCEPT !.state = "released"]
    /\ IF connection["a"] /\ agent.backend # "Disabled"
       THEN /\ connection' = [connection EXCEPT !["a"] = FALSE]
            /\ txn' = [txn EXCEPT !["a"] = NoTxn]
            /\ memdb' = [memdb EXCEPT !["a"] = NoDatabase]
       ELSE UNCHANGED <<connection, txn, memdb>>
    /\ IF db_path["a"] = MemPath /\ agent.backend # "Disabled"
       THEN /\ wr' = [wr EXCEPT !["a"] = [s \in Sessions |-> "never"]]
            /\ mru' = [mru EXCEPT !["a"] = <<>>]
       ELSE UNCHANGED <<wr, mru>>
    /\ ev' = IF agent.backend = "Disabled" THEN ev
             ELSE Event("cleanup", "a", "", <<>>, NoBefore, "ok", <<>>, FALSE, <<>>)
    /\ UNCHANGED <<db_path, disk, now, pc, frame, epoch, run>>
    /\ UNCHANGED rowVars

(* ------------------ the two backends side by side --------------------- *)

\* store(s, items) on the row backend and, on the blob backend,
\* clear_session(s) followed by append_to_session(s, items): the DELETE is
\* committed, load_session finds no row, save_session writes the new items
store_and_clear_append(s, items) ==
    /\ row_conn = "open"
    /\ pc["a"] = "idle"
    /\ memory' = StoreRows(s, items)
    /\ LET cleared == DeleteRow(View("a"), s)
           existing_history == <<>>
           updated_history == existing_history \o items
       IN Write("a", InsertOrReplace(cleared, s, JsonDumps(updated_history)), "ok")
    /\ ev' = Event("store_and_clear_append", "a", s, items, NoBefore, "ok",
                   <<>>, FALSE, <<>>)
    /\ GhostWritten("a", s, "ok")
    /\ UNCHANGED <<db_path, now, pc, frame, row_conn, epoch>>
    /\ UNCHANGED runVars

(* --------------------------- specifications --------------------------- *)

\* one store, its calls one after the other
Next ==
    \/ \E s \in Sessions : load_session("a", s)
    \/ \E s \in Sessions, h \in Hist : save_session("a", s, h, "ok")
    \/ \E s \in Sessions, h \in Hist : append_to_session_load("a", s, h)
    \/ append_to_session_save("a", "ok")
    \/ \E s \in Sessions : clear_session("a", s, "ok")
    \/ list_sessions("a")
    \/ \E s \in Sessions : session_exists("a", s)
    \/ cleanup("a")
    \/ Tick

InitOne == Init /\ epoch = NoEpoch

Spec == InitOne /\ [][Next]_vars

\* two stores opened on the same file, their calls interleaved
ConcSessions == {"s1"}

InitConc == Init /\ db_path = [c \in Stores |-> FilePath]

InitBoth == InitConc /\ epoch = NoEpoch

NextConc ==
    \/ \E c \in Stores, s \in ConcSessions : load_session(c, s)
    \/ \E c \in Stores, s \in ConcSessions, h \in Hist :
         save_session(c, s, h, "ok")
    \/ \E c \in Stores, s \in ConcSessions, h \in Hist :
         append_to_session_load(c, s, h)
    \/ \E c \in Stores : append_to_session_save(c, "ok")
    \/ \E c \in Stores, s \in ConcSessions : clear_session(c, s, "ok")

SpecConc == InitBoth /\ [][NextConc]_vars

\* two stores on the same file: the commits of store a may fail, store b
\* reads, and writes when the lock lets it
InitFail == InitConc /\ epoch = EpochOff

\* the histories passed to the calls that may fail
FailHist == {h \in Hist : Len(h) <= 1}

NextFail ==
    \/ \E c \in Stores, s \in ConcSessions : load_session(c, s)
    \/ \E s \in ConcSessions, h \in FailHist, o \in {"ok", "busy", "rolled_back"} :
         save_session("a", s, h, o)
    \/ \E s \in ConcSessions, h \in FailHist : append_to_session_load("a", s, h)
    \/ \E o \in {"ok", "busy", "rolled_back"} : append_to_session_save("a", o)
    \/ \E s \in ConcSessions, o \in {"ok", "busy", "rolled_back"} :
         clear_session("a", s, o)
    \/ \E s \in ConcSessions, h \in FailHist, o \in {"ok", "locked"} :
         save_session("b", s, h, o)
    \/ cleanup("a")
    \/ \E s \in ConcSessions : corrupt(s)

SpecFail == InitFail /\ [][NextFail]_vars

\* the row backend
NextRow ==
    \/ \E s \in Sessions : load(s)
    \/ \E s \in Sessions, h \in Hist, o \in RowOutcomes : store(s, h, o)
    \/ close
    \/ \E s \in Sessions, k \in 0..(MaxLen - 1) : corrupt_row(s, k)

InitRow == Init /\ epoch = EpochOff /\ db_path["a"] = MemPath

SpecRow == InitRow /\ [][NextRow]_vars

\* both backends, opened and released
NextRelease ==
    \/ \E s \in ConcSessions : load_session("a", s)
    \/ \E s \in ConcSessions, h \in FailHist : save_session("a", s, h, "ok")
    \/ cleanup("a")
    \/ \E s \in ConcSessions : load(s)
    \/ \E s \in ConcSessions, h \in FailHist, o \in RowOutcomes : store(s, h, o)
    \/ close

InitRelease == Init /\ epoch = EpochOff

SpecRelease == InitRelease /\ [][NextRelease]_vars

\* one agent, its turns one after the other
NextRun ==
    \/ \E mem \in Configs : Agent_init(mem)
    \/ \E s \in Sessions, input \in Items : run_load(s, input)
    \/ \E gen \in Generated : run_model(gen)
    \/ run_append
    \/ run_release

InitRun == Init /\ epoch = EpochOff

SpecRun == InitRun /\ [][NextRun]_vars

\* both backends given the same writes
NextEquiv ==
    \/ \E s \in Sessions, h \in Hist : store_and_clear_append(s, h)
    \/ \E s \in Sessions : load(s)
    \/ \E s \in Sessions : load_session("a", s)
    \/ \E s \in Sessions : session_exists("a", s)
    \/ list_sessions("a")

InitEquiv == Init /\ epoch = EpochOff

SpecEquiv == InitEquiv /\ [][NextEquiv]_vars

(* ------------------- claims on one store (Spec) ----------------------- *)

\* C1: after save(S, B), whatever S held before (nothing, or the A of an
\* earlier save), load(S) returns exactly B: same items, same order,
\* repeated items kept, nothing of A left over.
C1_SaveReplaces ==
    (ev.op = "save" /\ ev.ok) => LoadResult(ev.st, ev.sid) = ev.arg

\* a save of <<x, x>> has replaced an existing row
C1_Witness ==
    /\ ev.op = "save" /\ ev.ok
    /\ ev.before.had
    /\ ev.arg = <<"x", "x">>
    /\ LoadResult(ev.st, ev.sid) = <<"x", "x">>

\* C2: with no other call in between, after append(S, B) load(S) returns
\* the history the append found (the A of the preceding save, or nothing
\* when S was never written) followed by B, in order.
C2_AppendExtends ==
    (ev.op = "append" /\ ev.ok) =>
        /\ LoadResult(ev.st, ev.sid) = ev.before.hist \o ev.arg
        /\ ~ev.before.had => LoadResult(ev.st, ev.sid) = ev.arg

\* append(S, <<y>>) has completed on a session that held <<x>>
C2_Witness ==
    /\ ev.op = "append" /\ ev.ok
    /\ ev.before.had
    /\ ev.before.hist = <<"x">>
    /\ ev.arg = <<"y">>
    /\ LoadResult(ev.st, ev.sid) = <<"x", "y">>

\* C7: after clear(S), load(S) is empty and S does not exist; a clear of a
\* session that is absent or was just cleared succeeds and leaves the
\* database, the connection and the transaction as they were.
C7_ClearInv ==
    (ev.op = "clear") =>
        /\ ev.ok
        /\ LoadResult(ev.st, ev.sid) = <<>>
        /\ ~ExistsResult(ev.st, ev.sid)

C7_ClearAgain ==
    \A s \in Sessions :
        (ev.op = "clear" /\ ev.sid = s /\ clear_session(ev.st, s, "ok")) =>
            /\ UNCHANGED <<connection, disk, memdb, txn>>
            /\ ev'.ok

C7_ClearIdempotent == [](C7_ClearInv) /\ [][C7_ClearAgain]_vars

\* a clear has completed on a session that had no row
C7_Witness ==
    /\ ev.op = "clear" /\ ev.ok
    /\ ~ev.before.had
    /\ wr[DbId(ev.st)][ev.sid] = "cleared"

C10_ListByLastWrite ==
    ev.op = "list" => ev.listing = mru[DbId(ev.st)]

(* --------------- claims on two stores (SpecConc) ---------------------- *)

\* the effect of one write call on a session, run alone
Apply(call, st) ==
    CASE call.op = "save" -> [had |-> TRUE, hist |-> call.arg]
      [] call.op = "append" -> [had |-> TRUE, hist |-> st.hist \o call.arg]
      [] call.op = "clear" -> [had |-> FALSE, hist |-> <<>>]

\* both stores have made one write call on the same session, the calls
\* overlapped, and both have returned
EpochDone ==
    /\ epoch.tracked
    /\ InProgress = {}
    /\ \A c \in Stores : epoch.calls[c] # NoCall

Count(seq, i) == Cardinality({k \in 1..Len(seq) : seq[k] = i})

\* C3 (as claimed): when append(S, [x]) and append(S, [y]) of two stores
\* overlap, the final history is two items longer than the prior one and
\* holds each appended item once more than before.
C3_ConcurrentAppendsKept ==
    ( /\ EpochDone
      /\ epoch.calls["a"] = [op |-> "append", sid |-> epoch.sid, arg |-> <<"x">>]
      /\ epoch.calls["b"] = [op |-> "append", sid |-> epoch.sid, arg |-> <<"y">>] )
    => LET final == LoadResult("a", epoch.sid)
       IN /\ Len(final) = Len(epoch.before.hist) + 2
          /\ \A i \in Items :
               Count(final, i) = Count(epoch.before.hist, i) + 1

\* C4 (as claimed): when write calls of two stores on one session overlap,
\* the session ends as if the two calls had run one after the other, in
\* one of the two orders.
C4_Serializable ==
    EpochDone =>
        LET ca == epoch.calls["a"]
            cb == epoch.calls["b"]
            final == [had |-> ExistsResult("a", epoch.sid),
                      hist |-> LoadResult("a", epoch.sid)]
        IN final \in {Apply(cb, Apply(ca, epoch.before)),
                      Apply(ca, Apply(cb, epoch.before))}

(* ------------------- claims on failures and damage -------------------- *)

\* a write call of some store ends in an error
FailedWriteStep ==
    \E c \in Stores, o \in Faults :
        \/ \E s \in Sessions, h \in Hist : save_session(c, s, h, o)
        \/ append_to_session_save(c, o)
        \/ \E s \in Sessions : clear_session(c, s, o)

\* C5 (as claimed): a save, append or clear that fails, at the statement
\* or at the commit, changes nothing that a load or exists of any store
\* returns afterwards.
C5_FailedWriteInvisible ==
    [][FailedWriteStep =>
         \A d \in Stores, s \in Sessions :
            /\ LoadResult(d, s)' = LoadResult(d, s)
            /\ ExistsResult(d, s)' = ExistsResult(d, s)]_vars

\* C6 (as claimed): load on an open store never raises; it returns the
\* empty sequence when the session has no rows or its data is corrupt.
C6_LoadNeverRaises ==
    /\ ev.op = "load" => ev.ok
    /\ (ev.op = "row_load" /\ row_conn = "open") => ev.ok

(* ------------------- claims on isolation and release ------------------ *)

\* a save, append or clear on session s1 completes, with any outcome
WriteOn(s1) ==
    /\ ev'.op \in {"save", "append", "clear"}
    /\ ev'.sid = s1
    /\ LET c == ev'.st
           o == IF ev'.ok THEN "ok" ELSE ev'.error
       IN \/ \E h \in (IF ev'.ok THEN {ev'.arg} ELSE Hist) :
                save_session(c, s1, h, o)
          \/ append_to_session_save(c, o)
          \/ clear_session(c, s1, o)

C11_LoadOnlyOwnWrites ==
    (ev.op = "load" /\ wr[DbId(ev.st)][ev.sid] # "written") => ev.hist = <<>>

C11_OthersUnchanged ==
    \A s1 \in Sessions :
        WriteOn(s1) =>
            \A c \in Stores, s2 \in Sessions \ {s1} :
                /\ LoadResult(c, s2)' = LoadResult(c, s2)
                /\ ExistsResult(c, s2)' = ExistsResult(c, s2)

\* C11: a save, append or clear on session S1 leaves load(S2) and
\* exists(S2) unchanged for every other session S2, and a load of a session
\* that holds no write of its own returns nothing.
C11_SessionsIsolated == [](C11_LoadOnlyOwnWrites) /\ [][C11_OthersUnchanged]_vars

\* s1 was saved last and holds <<x>> while s2 still holds its own <<y>>
C11_Witness ==
    /\ ev.op = "save" /\ ev.sid = "s1"
    /\ LoadResult("a", "s1") = <<"x">>
    /\ LoadResult("a", "s2") = <<"y">>

C12_Released ==
    /\ ev.op = "cleanup" =>
         ev.ok /\ ~connection[ev.st] /\ ~txn[ev.st].active
    /\ ev.op = "row_close" => ev.ok /\ row_conn = "closed"

C12_ReleaseAgain ==
    /\ \A c \in Stores :
         (ev.op = "cleanup" /\ ev.st = c /\ cleanup(c)) =>
             /\ UNCHANGED <<connection, disk, memdb, txn>>
             /\ ev' = ev
    /\ (ev.op = "row_close" /\ close) =>
             /\ UNCHANGED <<memory, row_conn>>
             /\ ev' = ev

\* C12: release raises nothing and leaves the store with no connection,
\* on a store that never opened one as well; a release that follows a
\* release changes nothing.
C12_ReleaseIdempotent == [](C12_Released) /\ [][C12_ReleaseAgain]_vars

\* a store on a file whose database was never created has been released
C12_Witness ==
    /\ ev.op = "cleanup" /\ ev.ok
    /\ db_path[ev.st] = FilePath
    /\ ~disk.schema

\* a call that is not a save, append or clear
ReadOrRelease ==
    /\ ev'.op \in {"load", "exists", "list", "cleanup"}
    /\ LET c == ev'.st
       IN \/ load_session(c, ev'.sid)
          \/ session_exists(c, ev'.sid)
          \/ list_sessions(c)
          \/ cleanup(c)

\* C13 (as claimed): load, exists, listSessions and release leave every
\* session's history as it was, for a store on a file and for a store in
\* memory alike.
C13_OnlyWritesChange ==
    [][ReadOrRelease =>
         \A c \in Stores, s \in Sessions :
            LoadResult(c, s)' = LoadResult(c, s)]_vars

(* ------------------------ claims on the runtime ----------------------- *)

C15_TurnsCarryHistory ==
    (agent.state = "ready" /\ agent.backend \in {"Default", "Custom"}) =>
        /\ run.phase = "loaded" =>
             /\ run.history = run.told[run.session_id]
             /\ run.model_input = run.history \o <<run.input>>
        /\ (run.phase = "idle" /\ run.turns > 0) =>
             /\ LoadResult("a", run.session_id) =
                  run.history \o <<run.input>> \o run.generated
             /\ ExistsResult("a", run.session_id)
        /\ \A s \in Sessions : LoadResult("a", s) = run.told[s]

\* the second turn on a session has loaded the items of the first
C15_Witness ==
    /\ agent.backend = "Default"
    /\ run.phase = "loaded"
    /\ run.turns = 1
    /\ Len(run.history) >= 2
    /\ run.history = run.told[run.session_id]

(* ------------------- claims on the stored records --------------------- *)

\* C16 (as claimed): an append on a session that has a stored record leaves
\* every record stored before it as it was, and the call holds no history
\* read back from the store.
C16_AppendIncremental ==
    [][\A c \in Stores :
         (ev'.op = "append" /\ ev'.ok /\ append_to_session_save(c, "ok")) =>
             /\ frame[c].existing_history = <<>>
             /\ \A s \in DOMAIN View(c) :
                  s \in DOMAIN View(c)' /\ View(c)'[s] = View(c)[s]]_vars

\* C17 (as claimed): an index of a session that holds an item is not given
\* to a different item of that session by any write.
C17_IndexNeverReused ==
    [][\A r \in memory : \A q \in memory' :
         ( /\ q.session_id = r.session_id
           /\ q.idx = r.idx
           /\ JsonLoadsItem(r.item).ok
           /\ JsonLoadsItem(q.item).ok )
         => q.item = r.item]_vars

\* the items of a sequence of stored texts that deserialize, in order
RECURSIVE Readable(_)
Readable(texts) ==
    IF texts = <<>> THEN <<>>
    ELSE LET first == JsonLoadsItem(Head(texts))
         IN (IF first.ok THEN first.value ELSE <<>>) \o Readable(Tail(texts))

\* C18 (as claimed): a load on an open store raises nothing and returns
\* the stored items that deserialize, in their stored order.
C18_CorruptSkipped ==
    [][(ev'.op = "row_load" /\ row_conn = "open" /\ load(ev'.sid)) =>
         /\ ev'.ok
         /\ ev'.hist = Readable(SelectItems(ev'.sid))]_vars

\* C19 (as claimed): a backend on which no operation was called holds no
\* connection.
C19_LazyConnection ==
    ev = NoEvent =>
        /\ \A c \in Stores : ~connection[c]
        /\ row_conn # "open"

\* C20 (as claimed): after the same writes, made with store on one side
\* and with clear followed by append on the other, both sides load the
\* same history for every session and hold the same sessions.
C20_StoreIsClearAppend ==
    \A s \in Sessions :
        /\ RowLoadResult(s) = LoadResult("a", s)
        /\ (s \in RowSessions) = ExistsResult("a", s)

(* ------------------- claims on the reads together --------------------- *)

\* the sessions of a listing
Listed(order) == {order[i] : i \in 1..Len(order)}

\* C21: in every state the three reads of a store agree: every listing
\* that list_sessions may return holds exactly the sessions that exist,
\* each once (one record per session id), and a session whose load is
\* not empty exists.
C21_ReadsAgree ==
    \A c \in Stores :
        /\ \A order \in Listings :
             IsListing(c, order) =>
                 /\ \A s \in Sessions : ExistsResult(c, s) = (s \in Listed(order))
                 /\ \A i, j \in 1..Len(order) : order[i] = order[j] => i = j
        /\ \A s \in Sessions : LoadResult(c, s) # <<>> => ExistsResult(c, s)

\* a listing of s1 alone was returned while s1 exists with an empty
\* history and s2 does not exist
C21_Witness ==
    /\ ev.op = "list"
    /\ ev.listing = <<"s1">>
    /\ ExistsResult(ev.st, "s1")
    /\ LoadResult(ev.st, "s1") = <<>>
    /\ ~ExistsResult(ev.st, "s2")

\* C22: after a save or an append of the empty sequence the session
\* exists, is in every listing and, when it was absent or was saved, loads
\* as empty; an append of the empty sequence on an existing session leaves
\* its history as it was and no session has a later modification time.
C22_EmptyWriteCreates ==
    (ev.op \in {"save", "append"} /\ ev.ok /\ ev.arg = <<>>) =>
        LET c == ev.st
            s == ev.sid
        IN /\ ExistsResult(c, s)
           /\ \A order \in Listings : IsListing(c, order) => s \in Listed(order)
           /\ (ev.op = "save" \/ ~ev.before.had) => LoadResult(c, s) = <<>>
           /\ (ev.op = "append" /\ ev.before.had) =>
                /\ LoadResult(c, s) = ev.before.hist
                /\ \A t \in DOMAIN View(c) :
                     View(c)[t].updated_at <= View(c)[s].updated_at

\* an append of the empty sequence on a session holding <<x>> has made it
\* more recent than the other session
C22_Witness ==
    /\ ev.op = "append" /\ ev.ok /\ ev.arg = <<>>
    /\ ev.before.had
    /\ ev.before.hist = <<"x">>
    /\ LoadResult(ev.st, ev.sid) = <<"x">>
    /\ \E t \in DOMAIN View(ev.st) :
         View(ev.st)[t].updated_at < View(ev.st)[ev.sid].updated_at

====
